---- MODULE Spec2Model ----
(***************************************************************************)
(* Model of the replicated ledger of medicalrecordblockchain (main.go, the *)
(* hash-based variant, lines 282-587).                                     *)
(*                                                                         *)
(* Node processes (--NODE_ID) run initBlockchain, registerNodeWithDiscovery*)
(* and then the mine / syncBlock loop; the server process (--HTTP) serves  *)
(* POST /block and GET /chain.  All processes share nodes.json and the     *)
(* ./data/<id>.json files.  Every file system call is one step, so the     *)
(* read-modify-write sequences of the code interleave as they do on disk.  *)
(***************************************************************************)
EXTENDS Naturals, Sequences, FiniteSets, TLC

(* ---------------------------------------------------------------- bounds *)
\* blocks mined by all processes together before the model stops
MaxMine == 2
\* events of the environment in one behaviour: a second passing between two
\* readings of the clock, or a file system call failing
MaxEvents == 1

(* ------------------------------------------------------------- processes *)
\* processes started with --NODE_ID=<id>
Nodes == {"node-1", "node-2"}
\* the process started with --HTTP, and its request handler goroutines
HttpProc == "http"
Handlers == {"conn-1", "conn-2"}
Threads == Nodes \cup Handlers
Procs == Nodes \cup {HttpProc}
ProcOf(t) == IF t \in Handlers THEN HttpProc ELSE t
\* values of the "data" field of a POST /block body
Payloads == {"payload-A"}
\* names <id> of the files ./data/<id>.json the program can write
FileIds == Nodes \cup Payloads

(* ------------------------------------------------------------ file values *)
\* a file is absent, holds a JSON array (val), or holds bytes that do not parse
Absent == [st |-> "absent", val |-> << >>]
Corrupt == [st |-> "corrupt", val |-> << >>]
Ok(s) == [st |-> "ok", val |-> s]

(* -------------------------------------------------------------- HashChain *)
\* crypto/sha256 + "%x": modelled as an injective function of the input text
Sha256Hex(s) == "sha256(" \o s \o ")"

calculateHash(prevHash, timestamp, data, prevHash2) ==
    Sha256Hex(prevHash \o timestamp \o data \o prevHash2)

\* time.Now().Format("2006-01-02 15:04:05"): the clock's second as text
TimeFormat(sec) == "2024-03-22 00:00:0" \o ToString(sec)

\* uuid.New().String(): the k-th identifier drawn by goroutine t
Uuid(t, k) == "uuid-" \o t \o "-" \o ToString(k)

NoBlock == [id |-> "", timestamp |-> "", data |-> "", prevHash |-> "", hash |-> ""]

GenesisTimestamp == "2024-03-21 00:00:00"
GenesisData == "Genesis Block"
GenesisSeed == "genesisHash"

\* a genesis hash that also covers the block's ID
GenesisBlockHashingId(id) ==
    [id        |-> id,
     timestamp |-> GenesisTimestamp,
     data      |-> GenesisData,
     prevHash  |-> "",
     hash      |-> calculateHash(GenesisSeed \o id, GenesisTimestamp, GenesisData, "")]

\* the struct literal of initBlockchain
GenesisBlock(id) ==
    [id        |-> id,
     timestamp |-> GenesisTimestamp,
     data      |-> GenesisData,
     prevHash  |-> "",
     hash      |-> calculateHash(GenesisSeed, GenesisTimestamp, GenesisData, "")]

BlockData(nodeId) == "Data for Node " \o nodeId

\* a block linked to the tip's predecessor instead of the tip
NewBlockStaleLink(prev, id, ts1, ts2, nodeId) ==
    [id        |-> id,
     timestamp |-> ts1,
     data      |-> BlockData(nodeId),
     prevHash  |-> prev.prevHash,
     hash      |-> calculateHash(prev.prevHash, ts2, BlockData(nodeId), prev.prevHash)]

\* the struct literal of mineBlock: its fields are evaluated in order, so the
\* Timestamp field holds the first time.Now() (ts1) and the Hash field is
\* computed from the second (ts2)
NewBlock(prev, id, ts1, ts2, nodeId) ==
    [id        |-> id,
     timestamp |-> ts1,
     data      |-> BlockData(nodeId),
     prevHash  |-> prev.hash,
     hash      |-> calculateHash(prev.hash, ts2, BlockData(nodeId), prev.hash)]

\* an append that overwrites the tip
AppendBlockOverTip(c, b) ==
    IF c = << >> THEN << b >> ELSE [c EXCEPT ![Len(c)] = b]

\* blockchain.Chain = append(blockchain.Chain, newBlock)
AppendBlock(c, b) == Append(c, b)

(* ------------------------------------------------------- ReplicationStore *)
\* a store that drops no block
RemoveIdNone(s, id) == s

RECURSIVE RemoveId(_, _)
\* the loop of storeBlockData that drops every block whose ID equals id
RemoveId(s, id) ==
    IF s = << >> THEN << >>
    ELSE IF Head(s).id = id THEN RemoveId(Tail(s), id)
         ELSE << Head(s) >> \o RemoveId(Tail(s), id)

\* the plain append of the sequential-index variant
UpsertPlainAppend(s, b) == Append(s, b)

\* the sequence storeBlockData marshals: old blocks minus the ID, then block
Upsert(s, b) == Append(RemoveId(s, b.id), b)

RECURSIVE Count(_, _)
\* number of positions of s holding block b
Count(s, b) ==
    IF s = << >> THEN 0
    ELSE (IF Head(s) = b THEN 1 ELSE 0) + Count(Tail(s), b)

(* ----------------------------------------------------------- NodeRegistry *)
\* a created file with nothing written into it
EmptyNodesFileBlank == Corrupt

\* the file createNodesFile writes: the JSON of []string{}
EmptyNodesFile == Ok(<< >>)

\* a registration that skips an id already present
AddNodeOnce(ns, id) ==
    IF \E i \in 1..Len(ns) : ns[i] = id THEN ns ELSE Append(ns, id)

\* a register that puts the id in front
AddNodeFirst(ns, id) == << id >> \o ns

\* nodes = append(nodes, nodeID) of registerNodeWithDiscovery
AddNode(ns, id) == Append(ns, id)

(* ------------------------------------------------------------------ state *)
VARIABLES
    chain,      \* blockchain.Chain of each process (package-level variable)
    nodesFile,  \* nodes.json
    dataFile,   \* ./data/<id>.json, one per id
    now,        \* the wall clock at its last reading, in seconds
    faults,     \* file system errors that have occurred so far
    pc,         \* position of each goroutine in the code
    arg,        \* the nodeID argument of mineBlock
    uuids,      \* identifiers uuid.New() has handed to each goroutine
    mined,      \* blocks each goroutine has appended to its ledger
    prevBlock,  \* mineBlock's local prevBlock
    ts1,        \* the Timestamp field, evaluated before the Hash field
    newBlock,   \* the block being stored and broadcast
    nodes,      \* result of loadNodes (nodes / otherNodes)
    idx,        \* 0 in mineBlock's own store, else position in otherNodes
    blocks,     \* storeBlockData's local blocks, as read from the file
    errlog,     \* errors log.Printf reported in the current cycle
    resp        \* last HTTP response of each handler

shared == << chain, nodesFile, dataFile, now, faults >>
locals == << pc, arg, uuids, mined, prevBlock, ts1, newBlock, nodes, idx, blocks,
             errlog, resp >>
vars == << chain, nodesFile, dataFile, now, faults, pc, arg, uuids, mined,
           prevBlock, ts1, newBlock, nodes, idx, blocks, errlog, resp >>

NoResponse ==
    [req |-> "", data |-> "", status |-> 0, body |-> NoBlock, blocks |-> << >>]

\* registries a previous run can have left behind: none, or one in which
\* node-1 registered and was stopped before its first block
InitialRegistries == {Absent, Ok(<< "node-1" >>)}

\* the state of processes that have just been started, at positions pcs
Started(pcs) ==
    /\ chain = [p \in Procs |-> << >>]
    /\ nodesFile \in InitialRegistries
    /\ dataFile = [f \in FileIds |-> Absent]
    /\ now = 0
    /\ faults = 0
    /\ pc = pcs
    /\ arg = [t \in Threads |-> IF t \in Handlers THEN "" ELSE t]
    /\ uuids = [t \in Threads |-> 0]
    /\ mined = [t \in Threads |-> 0]
    /\ prevBlock = [t \in Threads |-> NoBlock]
    /\ ts1 = [t \in Threads |-> ""]
    /\ newBlock = [t \in Threads |-> NoBlock]
    /\ nodes = [t \in Threads |-> << >>]
    /\ idx = [t \in Threads |-> 0]
    /\ blocks = [t \in Threads |-> << >>]
    /\ errlog = [t \in Threads |-> {}]
    /\ resp = [t \in Threads |-> NoResponse]

\* both node processes start beside a server with one connection open
Init ==
    Started([t \in Threads |-> IF t \in Nodes THEN "start"
                               ELSE IF t = "conn-1" THEN "idle" ELSE "off"])

(* ------------------------------------------------------------------ clock *)
\* the seconds time.Now() can show when it is read: the wall clock does not
\* go back, and between two readings any number of seconds can pass
Readings == { s \in 0..(MaxEvents - faults) : s >= now }

\* a file system call may fail
CanFail == now + faults < MaxEvents

(* ----------------------------------------------------------------- Ledger *)
\* main, node mode: initBlockchain()
InitBlockchain(t) ==
    /\ t \in Nodes
    /\ pc[t] = "start"
    /\ uuids' = [uuids EXCEPT ![t] = @ + 1]
    /\ chain' = [chain EXCEPT ![t] = AppendBlock(@, GenesisBlock(Uuid(t, uuids'[t])))]
    /\ pc' = [pc EXCEPT ![t] = "regLoad"]
    /\ UNCHANGED << nodesFile, dataFile, now, faults >>
    /\ UNCHANGED << arg, mined, prevBlock, ts1, newBlock, nodes, idx, blocks,
                    errlog, resp >>

\* mineBlock up to the Timestamp field: read the tip (index out of range on an
\* empty ledger), draw the ID, take the first time.Now()
MineBegin(t, nodeId) ==
    IF chain[ProcOf(t)] = << >>
    THEN \* runtime panic; net/http recovers it in a handler and closes the
         \* connection, a node process dies
         /\ pc' = [pc EXCEPT ![t] = IF t \in Handlers THEN "idle" ELSE "crashed"]
         /\ resp' = [resp EXCEPT ![t] =
                [req |-> "POST /block", data |-> nodeId, status |-> 0,
                 body |-> NoBlock, blocks |-> << >>]]
         /\ UNCHANGED shared
         /\ UNCHANGED << arg, uuids, mined, prevBlock, ts1, newBlock, nodes, idx,
                         blocks, errlog >>
    ELSE /\ prevBlock' = [prevBlock EXCEPT ![t] =
                chain[ProcOf(t)][Len(chain[ProcOf(t)])]]
         /\ uuids' = [uuids EXCEPT ![t] = @ + 1]
         /\ \E s \in Readings :
                /\ now' = s
                /\ ts1' = [ts1 EXCEPT ![t] = TimeFormat(s)]
         /\ arg' = [arg EXCEPT ![t] = nodeId]
         /\ pc' = [pc EXCEPT ![t] = "mineHash"]
         /\ newBlock' = [newBlock EXCEPT ![t] = NoBlock]
         /\ nodes' = [nodes EXCEPT ![t] = << >>]
         /\ idx' = [idx EXCEPT ![t] = 0]
         /\ errlog' = [errlog EXCEPT ![t] = {}]
         /\ UNCHANGED << chain, nodesFile, dataFile, faults >>
         /\ UNCHANGED << mined, blocks, resp >>

RECURSIVE SumOver(_, _)
SumOver(f, S) ==
    IF S = {} THEN 0
    ELSE LET x == CHOOSE y \in S : TRUE IN f[x] + SumOver(f, S \ {x})

TotalMined == SumOver(mined, Threads)

\* runNode: the timer fires and the loop calls mineBlock(nodeID)
Mine(t) ==
    /\ t \in Nodes
    /\ pc[t] = "sleep"
    /\ TotalMined < MaxMine
    /\ MineBegin(t, t)

\* POST /block: c.Bind(&block), then mineBlock(block.Data)
PostBlock(t, d) ==
    /\ t \in Handlers
    /\ pc[t] = "idle"
    /\ MineBegin(t, d)

\* mineBlock from the Hash field on: second time.Now(), calculateHash, append
\* to the ledger, then storeBlockData(newBlock, nodeID)
MineHash(t) ==
    /\ pc[t] = "mineHash"
    /\ \E s \in Readings :
        LET b == NewBlock(prevBlock[t], Uuid(t, uuids[t]), ts1[t], TimeFormat(s),
                          arg[t])
        IN /\ now' = s
           /\ newBlock' = [newBlock EXCEPT ![t] = b]
           /\ chain' = [chain EXCEPT ![ProcOf(t)] = AppendBlock(@, b)]
    /\ mined' = [mined EXCEPT ![t] = @ + 1]
    /\ prevBlock' = [prevBlock EXCEPT ![t] = NoBlock]
    /\ ts1' = [ts1 EXCEPT ![t] = ""]
    /\ pc' = [pc EXCEPT ![t] = "storeRead"]
    /\ UNCHANGED << nodesFile, dataFile, faults >>
    /\ UNCHANGED << arg, uuids, nodes, idx, blocks, errlog, resp >>

(* ----------------------------------------------------------- NodeRegistry *)
InRegister(t) == pc[t] \in {"regLoad", "regCreate", "regSave"}
\* loadNodes called by getPrimaryNodes, for GET /chain
InGetChain(t) == pc[t] \in {"chainLoad", "chainCreate"}

\* getPrimaryNodes taking the first-registered entry
PrimaryNodeFirst(ns) == ns[1]

\* getPrimaryNodes: nodes[len(nodes)-1]
PrimaryNode(ns) == ns[Len(ns)]

\* the answer of the GET /chain handler: status 0 stands for a connection
\* closed without any response (the handler panicked)
ChainResponse(status, bs) ==
    [req |-> "GET /chain", data |-> "", status |-> status, body |-> NoBlock,
     blocks |-> bs]

\* a runNode that logs a failed registration and enters its loop all the same
LoadFailedContinue(t) ==
    /\ pc' = [pc EXCEPT ![t] = IF InRegister(t) THEN "sleep" ELSE "syncDone"]
    /\ errlog' = [errlog EXCEPT ![t] = @ \cup {[at |-> 0, msg |-> "Error"]}]
    /\ UNCHANGED << nodes, idx, resp >>

\* a loop that ends the process when syncBlock returns an error
LoadFailedFatal(t) ==
    /\ pc' = [pc EXCEPT ![t] = "halted"]
    /\ errlog' = [errlog EXCEPT ![t] = @ \cup {[at |-> 0, msg |-> "Error"]}]
    /\ UNCHANGED << nodes, idx, resp >>

\* loadNodes returned an error: runNode and getPrimaryNodes end in log.Fatalf,
\* which ends the process; syncBlock returns the error and its caller logs it
LoadFailed(t) ==
    /\ pc' = IF InGetChain(t)
             THEN [h \in Threads |-> IF h \in Handlers THEN "exited" ELSE pc[h]]
             ELSE [pc EXCEPT ![t] = IF InRegister(t) THEN "halted" ELSE "syncDone"]
    /\ errlog' = [errlog EXCEPT ![t] = @ \cup
            {[at |-> 0, msg |-> IF InRegister(t)
                                THEN "Error registering with discovery service"
                                ELSE IF InGetChain(t) THEN "Error loading nodes"
                                ELSE "Error syncing block"]}]
    /\ UNCHANGED << nodes, idx, resp >>

\* loadNodes returned ns: register goes on to saveNodes, syncBlock to its
\* loop, getPrimaryNodes to nodes[len(nodes)-1] (index out of range on an
\* empty registry: the handler panics)
LoadDone(t, ns) ==
    IF InGetChain(t)
    THEN /\ nodes' = [nodes EXCEPT ![t] = IF ns = << >> THEN << >> ELSE ns]
         /\ pc' = [pc EXCEPT ![t] = IF ns = << >> THEN "idle" ELSE "chainRead"]
         /\ resp' = [resp EXCEPT ![t] =
                IF ns = << >> THEN ChainResponse(0, << >>) ELSE @]
         /\ UNCHANGED << idx, errlog >>
    ELSE /\ nodes' = [nodes EXCEPT ![t] = ns]
         /\ IF InRegister(t)
            THEN /\ pc' = [pc EXCEPT ![t] = "regSave"]
                 /\ idx' = idx
            ELSE /\ pc' = [pc EXCEPT ![t] =
                        IF ns = << >> THEN "syncDone" ELSE "storeRead"]
                 /\ idx' = [idx EXCEPT ![t] = IF ns = << >> THEN 0 ELSE 1]
         /\ UNCHANGED << errlog, resp >>

\* loadNodes: ioutil.ReadFile(nodesFile) and json.Unmarshal
LoadNodes(t) ==
    /\ pc[t] \in {"regLoad", "syncLoad", "chainLoad"}
    /\ \/ /\ nodesFile.st = "ok"
          /\ LoadDone(t, nodesFile.val)
          /\ UNCHANGED faults
       \/ /\ nodesFile.st = "absent"
          /\ pc' = [pc EXCEPT ![t] =
                IF InRegister(t) THEN "regCreate"
                ELSE IF InGetChain(t) THEN "chainCreate" ELSE "syncCreate"]
          /\ UNCHANGED << nodes, idx, errlog, faults, resp >>
       \/ /\ nodesFile.st = "corrupt"
          /\ LoadFailed(t)
          /\ UNCHANGED faults
       \/ \* the read fails with an error other than "not exist"
          /\ nodesFile.st # "absent"
          /\ CanFail
          /\ faults' = faults + 1
          /\ LoadFailed(t)
    /\ UNCHANGED << chain, nodesFile, dataFile, now >>
    /\ UNCHANGED << arg, uuids, mined, prevBlock, ts1, newBlock, blocks >>

\* createNodesFile, called by loadNodes when the file does not exist
CreateNodesFile(t) ==
    /\ pc[t] \in {"regCreate", "syncCreate", "chainCreate"}
    /\ \/ /\ nodesFile' = EmptyNodesFile
          /\ LoadDone(t, << >>)
          /\ UNCHANGED faults
       \/ \* ioutil.WriteFile fails: nothing written, or a truncated file
          /\ CanFail
          /\ faults' = faults + 1
          /\ nodesFile' \in {nodesFile, Corrupt}
          /\ LoadFailed(t)
    /\ UNCHANGED << chain, dataFile, now >>
    /\ UNCHANGED << arg, uuids, mined, prevBlock, ts1, newBlock, blocks >>

\* registerNodeWithDiscovery after loadNodes: append the id, saveNodes
SaveNodes(t) ==
    /\ pc[t] = "regSave"
    /\ \/ /\ nodesFile' = Ok(AddNode(nodes[t], arg[t]))
          /\ pc' = [pc EXCEPT ![t] = "sleep"]
          /\ UNCHANGED << faults, errlog >>
       \/ /\ CanFail
          /\ faults' = faults + 1
          /\ nodesFile' \in {nodesFile, Corrupt}
          /\ pc' = [pc EXCEPT ![t] = "halted"]
          /\ errlog' = [errlog EXCEPT ![t] = @ \cup
                {[at |-> 0, msg |-> "Error registering with discovery service"]}]
    /\ nodes' = [nodes EXCEPT ![t] = << >>]
    /\ UNCHANGED << chain, dataFile, now >>
    /\ UNCHANGED << arg, uuids, mined, prevBlock, ts1, newBlock, idx, blocks, resp >>

(* ------------------------------------------------------- ReplicationStore *)
\* the nodeID argument of the storeBlockData call in progress
StoreTarget(t) == IF idx[t] = 0 THEN arg[t] ELSE nodes[t][idx[t]]

\* a broadcast that gives up at the first peer whose store fails
AfterStoreAbortOnFailure(i, n, failed) ==
    IF i = 0 THEN [pc |-> "syncLoad", idx |-> 0]
    ELSE IF i < n /\ ~failed THEN [pc |-> "storeRead", idx |-> i + 1]
         ELSE [pc |-> "syncDone", idx |-> i]

\* where control goes when storeBlockData returns: from mineBlock's call (i = 0)
\* to syncBlock, from syncBlock's loop to its next peer or to its return.
\* storeBlockData returns no value, so a failure changes nothing here.
AfterStore(i, n, failed) ==
    IF i = 0 THEN [pc |-> "syncLoad", idx |-> 0]
    ELSE IF i < n THEN [pc |-> "storeRead", idx |-> i + 1]
         ELSE [pc |-> "syncDone", idx |-> i]

StoreReturn(t, failed) ==
    LET r == AfterStore(idx[t], Len(nodes[t]), failed)
    IN /\ pc' = [pc EXCEPT ![t] = r.pc]
       /\ idx' = [idx EXCEPT ![t] = r.idx]

LogStore(t, m) ==
    errlog' = [errlog EXCEPT ![t] = @ \cup {[at |-> idx[t], msg |-> m]}]

\* storeBlockData: ioutil.ReadFile(filename) and json.Unmarshal
StoreRead(t) ==
    /\ pc[t] = "storeRead"
    /\ LET f == dataFile[StoreTarget(t)]
       IN \/ /\ f.st \in {"ok", "absent"}
             /\ blocks' = [blocks EXCEPT ![t] = f.val]
             /\ pc' = [pc EXCEPT ![t] = "storeWrite"]
             /\ UNCHANGED << idx, errlog, faults >>
          \/ /\ f.st = "corrupt"
             /\ LogStore(t, "Error unmarshalling block data")
             /\ StoreReturn(t, TRUE)
             /\ UNCHANGED << blocks, faults >>
          \/ \* the read fails with an error other than "not exist": it is
             \* logged and the function goes on with blocks = nil
             /\ f.st # "absent"
             /\ CanFail
             /\ faults' = faults + 1
             /\ LogStore(t, "Error reading existing block data")
             /\ blocks' = [blocks EXCEPT ![t] = << >>]
             /\ pc' = [pc EXCEPT ![t] = "storeWrite"]
             /\ UNCHANGED idx
    /\ UNCHANGED << chain, nodesFile, dataFile, now >>
    /\ UNCHANGED << arg, uuids, mined, prevBlock, ts1, newBlock, nodes, resp >>

\* storeBlockData: drop the blocks with the same ID, append, ioutil.WriteFile
StoreWrite(t) ==
    /\ pc[t] = "storeWrite"
    /\ \/ /\ dataFile' = [dataFile EXCEPT ![StoreTarget(t)] =
                            Ok(Upsert(blocks[t], newBlock[t]))]
          /\ StoreReturn(t, FALSE)
          /\ UNCHANGED << faults, errlog >>
       \/ /\ CanFail
          /\ faults' = faults + 1
          /\ \E w \in {dataFile[StoreTarget(t)], Corrupt} :
                dataFile' = [dataFile EXCEPT ![StoreTarget(t)] = w]
          /\ LogStore(t, "Error writing block data to file")
          /\ StoreReturn(t, TRUE)
    /\ blocks' = [blocks EXCEPT ![t] = << >>]
    /\ UNCHANGED << chain, nodesFile, now >>
    /\ UNCHANGED << arg, uuids, mined, prevBlock, ts1, newBlock, nodes, resp >>

(* -------------------------------------------------------- SyncBroadcaster *)
\* syncBlock has returned: runNode goes back to sleep, the POST /block handler
\* answers 201 with the new block
SyncReturn(t) ==
    /\ pc[t] = "syncDone"
    /\ IF t \in Handlers
       THEN /\ pc' = [pc EXCEPT ![t] = "idle"]
            /\ resp' = [resp EXCEPT ![t] =
                    [req |-> "POST /block", data |-> arg[t], status |-> 201,
                     body |-> newBlock[t], blocks |-> << >>]]
       ELSE /\ pc' = [pc EXCEPT ![t] = "sleep"]
            /\ resp' = resp
    /\ newBlock' = [newBlock EXCEPT ![t] = NoBlock]
    /\ nodes' = [nodes EXCEPT ![t] = << >>]
    /\ idx' = [idx EXCEPT ![t] = 0]
    /\ errlog' = [errlog EXCEPT ![t] = {}]
    /\ UNCHANGED shared
    /\ UNCHANGED << arg, uuids, mined, prevBlock, ts1, blocks >>

(* ------------------------------------------------------------ GET /chain *)
\* a GET /chain request arrives: readBlockchainData calls getPrimaryNodes
GetChain(t) ==
    /\ t \in Handlers
    /\ pc[t] = "idle"
    /\ pc' = [pc EXCEPT ![t] = "chainLoad"]
    /\ UNCHANGED shared
    /\ UNCHANGED << arg, uuids, mined, prevBlock, ts1, newBlock, nodes, idx, blocks,
                    errlog, resp >>

\* readBlockchainData: ioutil.ReadFile of the primary's file, json.Unmarshal,
\* and the handler's answer (200 with the blocks, or 500)
ChainRead(t) ==
    /\ pc[t] = "chainRead"
    /\ LET f == dataFile[PrimaryNode(nodes[t])]
       IN \/ /\ f.st = "ok"
             /\ resp' = [resp EXCEPT ![t] = ChainResponse(200, f.val)]
             /\ UNCHANGED << faults, errlog >>
          \/ /\ f.st \in {"absent", "corrupt"}
             /\ resp' = [resp EXCEPT ![t] = ChainResponse(500, << >>)]
             /\ errlog' = [errlog EXCEPT ![t] =
                    {[at |-> 0, msg |-> "Error reading blockchain data"]}]
             /\ UNCHANGED faults
          \/ /\ f.st # "absent"
             /\ CanFail
             /\ faults' = faults + 1
             /\ resp' = [resp EXCEPT ![t] = ChainResponse(500, << >>)]
             /\ errlog' = [errlog EXCEPT ![t] =
                    {[at |-> 0, msg |-> "Error reading blockchain data"]}]
    /\ pc' = [pc EXCEPT ![t] = "idle"]
    /\ nodes' = [nodes EXCEPT ![t] = << >>]
    /\ UNCHANGED << chain, nodesFile, dataFile, now >>
    /\ UNCHANGED << arg, uuids, mined, prevBlock, ts1, newBlock, idx, blocks >>

(* ---------------------------------------------------------- specification *)
\* the node processes and the POST /block path of the server
Next ==
    \/ \E t \in Threads :
        \/ InitBlockchain(t)
        \/ LoadNodes(t)
        \/ CreateNodesFile(t)
        \/ SaveNodes(t)
        \/ Mine(t)
        \/ MineHash(t)
        \/ StoreRead(t)
        \/ StoreWrite(t)
        \/ SyncReturn(t)
    \/ \E t \in Handlers, d \in Payloads : PostBlock(t, d)

Spec == Init /\ [][Next]_vars

\* the server with both connections open beside one running node process:
\* node-2 starts, node-1 is not running
InitServer ==
    Started([t \in Threads |-> IF t \in Handlers THEN "idle"
                               ELSE IF t = "node-2" THEN "start" ELSE "off"])

NextServer ==
    \/ Next
    \/ \E t \in Handlers :
        \/ GetChain(t)
        \/ ChainRead(t)

SpecServer == InitServer /\ [][NextServer]_vars

\* both node processes have initialised their ledgers and registered, one
\* after the other, and neither has mined yet; no server is running
InitRegistered ==
    /\ chain = [p \in Procs |->
            IF p \in Nodes THEN << GenesisBlock(Uuid(p, 1)) >> ELSE << >>]
    /\ nodesFile = Ok(<< "node-1", "node-2" >>)
    /\ dataFile = [f \in FileIds |-> Absent]
    /\ now = 0
    /\ faults = 0
    /\ pc = [t \in Threads |-> IF t \in Nodes THEN "sleep" ELSE "off"]
    /\ arg = [t \in Threads |-> IF t \in Nodes THEN t ELSE ""]
    /\ uuids = [t \in Threads |-> IF t \in Nodes THEN 1 ELSE 0]
    /\ mined = [t \in Threads |-> 0]
    /\ prevBlock = [t \in Threads |-> NoBlock]
    /\ ts1 = [t \in Threads |-> ""]
    /\ newBlock = [t \in Threads |-> NoBlock]
    /\ nodes = [t \in Threads |-> << >>]
    /\ idx = [t \in Threads |-> 0]
    /\ blocks = [t \in Threads |-> << >>]
    /\ errlog = [t \in Threads |-> {}]
    /\ resp = [t \in Threads |-> NoResponse]

\* a step of node t's mine/broadcast loop
LoopStep(t) ==
    \/ Mine(t)
    \/ MineHash(t)
    \/ StoreRead(t)
    \/ StoreWrite(t)
    \/ LoadNodes(t)
    \/ SyncReturn(t)

\* the mine/broadcast loops of the node processes
NextLoop == \E t \in Nodes : LoopStep(t)

SpecRegistered == InitRegistered /\ [][NextLoop]_vars

\* each node process is scheduled again and again and its timer fires: a
\* loop that can take a step takes one
SpecLoopFair ==
    SpecRegistered /\ \A t \in Nodes : WF_vars(LoopStep(t))

(* ----------------------------------------------------------------- claims *)
HashLinked(c) == \A i \in 2..Len(c) : c[i].prevHash = c[i - 1].hash

\* C1: in every process's ledger, every block except the first has prevHash
\* equal to the hash of the block right before it.
C1_HashLink == \A p \in Procs : HashLinked(chain[p])

\* a ledger holding the genesis block and two mined blocks
C1_Witness == \E p \in Procs : Len(chain[p]) >= 3

\* goroutine t makes the step that leaves position at
Leaves(t, at) == pc[t] = at /\ pc'[t] # at

\* the step in which t's storeBlockData writes the file, without error
StoreWrites(t) == Leaves(t, "storeWrite") /\ faults' = faults

\* s without the positions holding b
Without(s, b) == SelectSeq(s, LAMBDA x : x # b)

\* t's storeBlockData is about to write a file that still holds what it read,
\* and that already holds the block
ReAppend(t) ==
    /\ pc[t] = "storeWrite"
    /\ dataFile[StoreTarget(t)] = Ok(blocks[t])
    /\ Count(blocks[t], newBlock[t]) >= 1

\* C2 as stated: appending a block the peer's file already holds, at any
\* position, leaves the file as it was.
C2_ReAppendUnchanged ==
    [][\A t \in Threads :
        (ReAppend(t) /\ StoreWrites(t))
            => dataFile'[StoreTarget(t)] = dataFile[StoreTarget(t)]]_vars

\* C2 amended: appending a block the peer's file already holds keeps the
\* length and the blocks, holds the block once and last, keeps the order of
\* the other blocks, and changes nothing when the block was last already.
C2_ReAppendMovesToEnd ==
    [][\A t \in Threads :
        (ReAppend(t) /\ StoreWrites(t)) =>
            LET old == dataFile[StoreTarget(t)].val
                new == dataFile'[StoreTarget(t)].val
                b == newBlock[t]
            IN /\ dataFile'[StoreTarget(t)].st = "ok"
               /\ Len(new) = Len(old)
               /\ new[Len(new)] = b
               /\ Count(new, b) = 1
               /\ Without(new, b) = Without(old, b)
               /\ old[Len(old)] = b => new = old]_vars

\* a re-append in progress of a block that is in the file but not last
C2_Witness ==
    \E t \in Threads :
        /\ ReAppend(t)
        /\ blocks[t][Len(blocks[t])] # newBlock[t]

\* every peer of t's broadcast holds t's new block exactly once
AllPeersHold(t) ==
    \A i \in 1..Len(nodes[t]) :
        /\ dataFile[nodes[t][i]].st = "ok"
        /\ Count(dataFile[nodes[t][i]].val, newBlock[t]) = 1

\* C3: at the step that completes a broadcast, with no file system error in
\* the run and none logged by the broadcast, the file of every peer the
\* broadcast loaded from the registry holds the mined block exactly once.
C3_BroadcastDelivery ==
    [][\A t \in Threads :
        (pc[t] # "syncDone" /\ pc'[t] = "syncDone" /\ faults' = 0
            /\ errlog'[t] = {})
            => AllPeersHold(t)']_vars

\* positions of t's broadcast whose store logged an error
FailedAt(t) == { e.at : e \in { x \in errlog[t] : x.at >= 1 } }

C5_IntegrityHash ==
    \A p \in Procs : \A i \in 2..Len(chain[p]) :
        LET b == chain[p][i]
        IN b.hash = calculateHash(b.prevHash, b.timestamp, b.data, b.prevHash)

\* C6 as stated: the genesis block has prevHash "" and a hash that is
\* calculateHash over its own prevHash, timestamp and data, the same in
\* every process.
C6_GenesisOwnFields ==
    \A p \in Procs : chain[p] # << >> =>
        LET g == chain[p][1]
        IN /\ g.prevHash = ""
           /\ g.hash = calculateHash(g.prevHash, g.timestamp, g.data, g.prevHash)
           /\ \A q \in Procs : chain[q] # << >> => chain[q][1].hash = g.hash

\* C6 amended: the genesis block has prevHash "" and a hash that is
\* calculateHash over the fixed text "genesisHash" (in place of its prevHash),
\* its timestamp, its data and "", the same in every process.
C6_GenesisSeeded ==
    \A p \in Procs : chain[p] # << >> =>
        LET g == chain[p][1]
        IN /\ g.prevHash = ""
           /\ g.hash = calculateHash("genesisHash", g.timestamp, g.data, "")
           /\ g.timestamp = "2024-03-21 00:00:00"
           /\ g.data = "Genesis Block"
           /\ \A q \in Procs : chain[q] # << >> => chain[q][1].hash = g.hash

\* two processes have initialised their ledgers and one has mined since
C6_Witness ==
    \E p, q \in Procs :
        /\ p # q
        /\ Len(chain[p]) >= 2
        /\ Len(chain[q]) >= 1

\* C7: a step either leaves a ledger alone or adds one block at its end;
\* each mineBlock adds exactly one; a ledger is the genesis block followed
\* by one block per mineBlock of its process.
C7_AppendOnly ==
    /\ [](\A p \in Nodes : chain[p] # << >> =>
            /\ Len(chain[p]) = 1 + mined[p]
            /\ chain[p][1].prevHash = ""
            /\ chain[p][1].data = "Genesis Block")
    /\ [][\A p \in Procs :
            /\ \/ chain'[p] = chain[p]
               \/ /\ Len(chain'[p]) = Len(chain[p]) + 1
                  /\ SubSeq(chain'[p], 1, Len(chain[p])) = chain[p]
            /\ \A t \in Threads :
                (ProcOf(t) = p /\ Leaves(t, "mineHash")) =>
                    /\ Len(chain'[p]) = Len(chain[p]) + 1
                    /\ chain'[p][Len(chain'[p])] = newBlock'[t]]_vars

\* a ledger of length 3 after two mineBlock calls
C7_Witness == \E p \in Nodes : Len(chain[p]) = 3 /\ mined[p] = 2

\* C8: a POST /block with data d is answered 201 with a new block whose
\* data is d, the block is the tip of the server's ledger, and only files of
\* registered peers are written.
C8_PostBlock ==
    \A h \in Handlers : resp[h].req = "POST /block" =>
        /\ resp[h].status = 201
        /\ resp[h].body.data = resp[h].data
        /\ chain[HttpProc] # << >>
        /\ \A f \in FileIds :
            dataFile[f].st # "absent" =>
                (nodesFile.st = "ok" /\ \E i \in 1..Len(nodesFile.val) : nodesFile.val[i] = f)

\* C9: loadNodes that finds no nodes.json goes on to create it; the creation
\* leaves a file holding the empty array and returns the empty sequence; a
\* loadNodes that finds that file returns the empty sequence and leaves the
\* file as it is.
C9_LoadFresh ==
    [][\A t \in Threads :
        /\ (Leaves(t, "regLoad") /\ nodesFile.st = "absent") => pc'[t] = "regCreate"
        /\ (Leaves(t, "syncLoad") /\ nodesFile.st = "absent") => pc'[t] = "syncCreate"
        /\ ((Leaves(t, "regCreate") \/ Leaves(t, "syncCreate")) /\ faults' = faults) =>
            /\ nodesFile' = Ok(<< >>)
            /\ nodes'[t] = << >>
            /\ pc'[t] \in {"regSave", "syncDone"}
        /\ ((Leaves(t, "regLoad") \/ Leaves(t, "syncLoad")) /\ faults' = faults
                /\ nodesFile = Ok(<< >>)) =>
            /\ nodesFile' = nodesFile
            /\ nodes'[t] = << >>
            /\ pc'[t] \in {"regSave", "syncDone"}]_vars

\* both node processes have loaded the empty registry that one of them created
C9_Witness ==
    /\ nodesFile = Ok(<< >>)
    /\ \A t \in Nodes : pc[t] = "regSave" /\ nodes[t] = << >>

\* C10: a register whose saveNodes succeeds on the registry it loaded
\* (nothing written in between) turns registry s into s followed by its id,
\* also when s holds that id already.
C10_RegisterAppends ==
    [][\A t \in Threads :
        (Leaves(t, "regSave") /\ pc'[t] = "sleep" /\ nodesFile = Ok(nodes[t])) =>
            LET s == nodesFile.val
                s2 == nodesFile'.val
            IN /\ nodesFile'.st = "ok"
               /\ Len(s2) = Len(s) + 1
               /\ SubSeq(s2, 1, Len(s)) = s
               /\ s2[Len(s2)] = t]_vars

\* a registry in which one id was registered twice
C10_Witness ==
    /\ nodesFile.st = "ok"
    /\ \E i, j \in 1..Len(nodesFile.val) : i < j /\ nodesFile.val[i] = nodesFile.val[j]

\* the step in which t's loadNodes, called for GET /chain, returns the
\* empty registry: read from nodes.json, or just created
LoadsEmptyRegistry(t) ==
    /\ faults' = faults
    /\ \/ Leaves(t, "chainLoad") /\ nodesFile = Ok(<< >>)
       \/ Leaves(t, "chainCreate")

\* C11: a GET /chain that finds the registry empty is answered with an
\* error response (a status of 400 or more), and the server keeps running:
\* the handler neither panics nor ends the process.
C11_EmptyRegistryReported ==
    [][\A h \in Handlers :
        LoadsEmptyRegistry(h) =>
            /\ resp'[h].req = "GET /chain"
            /\ resp'[h].status >= 400
            /\ \A g \in Handlers : pc'[g] # "exited"]_vars

\* the file a GET /chain handler is about to read
ChainFile(t) == dataFile[nodes[t][Len(nodes[t])]]

\* C12: GET /chain on a non-empty registry goes on to read the file of the
\* registry's last entry; it answers 200 with exactly the blocks of that file,
\* and 500 with no blocks when the file is missing, unparsable or unreadable
\* (a handler whose process is ended meanwhile answers nothing).
C12_ChainOfLastRegistered ==
    [][\A h \in Handlers :
        /\ (Leaves(h, "chainLoad") /\ faults' = faults /\ nodesFile.st = "ok"
                /\ nodesFile.val # << >>) =>
            /\ pc'[h] = "chainRead"
            /\ nodes'[h] = nodesFile.val
        /\ (Leaves(h, "chainRead") /\ pc'[h] # "exited") =>
            /\ pc'[h] = "idle"
            /\ resp'[h].req = "GET /chain"
            /\ (ChainFile(h).st = "ok" /\ faults' = faults) =>
                /\ resp'[h].status = 200
                /\ resp'[h].blocks = ChainFile(h).val
            /\ (ChainFile(h).st # "ok" \/ faults' # faults) =>
                /\ resp'[h].status = 500
                /\ resp'[h].blocks = << >>
                /\ errlog'[h] # {}]_vars

\* a GET /chain answered with the two blocks of node-2's file, node-2 being
\* registered after node-1 whose file holds something else
C12_Witness ==
    \E h \in Handlers :
        /\ resp[h].req = "GET /chain"
        /\ resp[h].status = 200
        /\ Len(resp[h].blocks) = 2
        /\ nodesFile = Ok(<< "node-1", "node-2" >>)
        /\ dataFile["node-2"] = Ok(resp[h].blocks)
        /\ dataFile["node-1"] # dataFile["node-2"]

\* every node is between two rounds of its loop: each broadcast that was
\* started has completed
AllBroadcastsDone == \A t \in Nodes : pc[t] = "sleep"

\* C13: with all peers registered before any mining and no file system
\* error, whenever every started broadcast has completed the files of all
\* registered peers hold the same sequence of blocks.
C13_Convergence ==
    (AllBroadcastsDone /\ faults = 0) =>
        \A i, j \in 1..Len(nodesFile.val) :
            dataFile[nodesFile.val[i]] = dataFile[nodesFile.val[j]]

\* id is an entry of registry s
Holds(s, id) == \E i \in 1..Len(s) : s[i] = id

\* t's registerNodeWithDiscovery has returned without error
HasRegistered(t) ==
    pc[t] \in {"sleep", "mineHash", "storeRead", "storeWrite", "syncLoad",
               "syncCreate", "syncDone"}

\* C14: register is a full read-modify-write: a saveNodes that succeeds
\* leaves in nodes.json the sequence its loadNodes returned followed by its
\* own id, whatever the file holds by then, so that an id registered in
\* between is gone; and the register returns success.
C14_RegisterOverwrites ==
    [][\A t \in Nodes :
        (Leaves(t, "regSave") /\ faults' = faults) =>
            /\ nodesFile' = Ok(Append(nodes[t], t))
            /\ pc'[t] = "sleep"
            /\ \A u \in Nodes \ {t} : ~Holds(nodes[t], u) => ~Holds(nodesFile'.val, u)]_vars

\* both registers have returned success, no file system error has occurred,
\* and the registry lacks the id of one of the two
C14_Witness ==
    /\ \A t \in Nodes : HasRegistered(t)
    /\ faults = 0
    /\ nodesFile.st = "ok"
    /\ \E t \in Nodes : ~Holds(nodesFile.val, t)

\* C15: a block that is in a peer's file stays in that file: in a run with
\* no file system error no step removes a block from a file, whichever
\* writers' appends to the file interleave.
C15_ReplicatedBlocksDurable ==
    [][faults' = 0 =>
        \A f \in FileIds :
            dataFile[f].st = "ok" =>
                /\ dataFile'[f].st = "ok"
                /\ \A i \in 1..Len(dataFile[f].val) :
                    Count(dataFile'[f].val, dataFile[f].val[i]) >= 1]_vars

\* the positions a node process can go to from position at: start is
\* Uninitialized, regLoad to regSave are GenesisReady (registering), sleep is
\* registered, mineHash and the store with idx 0 are Mining, syncLoad to
\* syncDone and the stores with idx >= 1 are Broadcasting
NodeSteps(at) ==
    CASE at = "start" -> {"regLoad"}
      [] at = "regLoad" -> {"regCreate", "regSave", "halted"}
      [] at = "regCreate" -> {"regSave", "halted"}
      [] at = "regSave" -> {"sleep", "halted"}
      [] at = "sleep" -> {"mineHash"}
      [] at = "mineHash" -> {"storeRead"}
      [] at = "storeRead" -> {"storeWrite", "storeRead", "syncLoad", "syncDone"}
      [] at = "storeWrite" -> {"storeRead", "syncLoad", "syncDone"}
      [] at = "syncLoad" -> {"syncCreate", "storeRead", "syncDone"}
      [] at = "syncCreate" -> {"syncDone"}
      [] at = "syncDone" -> {"sleep"}
      [] OTHER -> {}

\* t has not entered its loop: it has not started, is registering, or halted
BeforeLoop(t) == pc[t] \in {"start", "regLoad", "regCreate", "regSave", "halted"}

\* t is in mineBlock's own store or in syncBlock
Broadcasting(t) ==
    pc[t] \in {"storeRead", "storeWrite", "syncLoad", "syncCreate", "syncDone"}

\* a block mined by node t is in some file
StoredBlockOf(t) ==
    \E f \in FileIds : \E i \in 1..Len(dataFile[f].val) :
        dataFile[f].val[i].data = BlockData(t)

\* the step in which t's registration fails
RegistrationFails(t) ==
    /\ InRegister(t)
    /\ pc'[t] # pc[t]
    /\ \/ faults' # faults
       \/ pc[t] = "regLoad" /\ nodesFile.st = "corrupt"

\* C17: a node process moves start -> genesis -> registration -> loop of
\* (mine, store, broadcast); its ledger is empty before the genesis block and
\* holds it from then on; before its registration has succeeded, and after it
\* has failed, it has mined no block and no block of it is in any file; the
\* block a round stores and broadcasts is the one block mined in that round;
\* a failed registration halts the process for good.
C17_StartupOrdering ==
    /\ [](\A t \in Nodes :
            /\ pc[t] = "start" <=> chain[t] = << >>
            /\ BeforeLoop(t) => (mined[t] = 0 /\ Len(chain[t]) <= 1 /\ ~StoredBlockOf(t))
            /\ Broadcasting(t) =>
                /\ Len(chain[t]) = 1 + mined[t]
                /\ newBlock[t] = chain[t][Len(chain[t])])
    /\ [][\A t \in Nodes :
            /\ pc'[t] # pc[t] => pc'[t] \in NodeSteps(pc[t])
            /\ (pc[t] = "sleep" /\ pc'[t] = "mineHash") => mined'[t] = mined[t]
            /\ Leaves(t, "mineHash") => mined'[t] = mined[t] + 1
            /\ pc[t] \notin {"mineHash"} => mined'[t] = mined[t]
            /\ RegistrationFails(t) => pc'[t] = "halted"
            /\ pc[t] = "halted" => pc'[t] = "halted"]_vars

\* a node halted by a failed registration while the other node is in its
\* second round
C17_Witness ==
    \E t, u \in Nodes :
        /\ pc[t] = "halted"
        /\ mined[u] = 2
        /\ Broadcasting(u)

\* the step of t in which a file system call of its loop fails
LoopError(t) == HasRegistered(t) /\ pc'[t] # pc[t] /\ faults' # faults

\* C18: a node in its loop stays in its loop: no step takes it out, and a
\* step in which a file system call fails logs the error; under fairness a
\* round that has logged an error still reaches the next interval, and the
\* node does not come to rest before all the blocks the bound allows have
\* been mined.
C18_LoopNeverTerminates ==
    /\ [][\A t \in Nodes :
            /\ HasRegistered(t) => HasRegistered(t)'
            /\ LoopError(t) => errlog'[t] # errlog[t]]_vars
    /\ \A t \in Nodes : (HasRegistered(t) /\ errlog[t] # {}) ~> (pc[t] = "mineHash" \/ TotalMined >= MaxMine)
    /\ \A t \in Nodes : HasRegistered(t) ~> (pc[t] = "sleep" /\ TotalMined >= MaxMine)

\* a broadcast of node t's loop that has ended with a logged error while
\* blocks remain to be mined
C18_Witness ==
    \E t \in Nodes :
        /\ pc[t] = "syncDone"
        /\ errlog[t] # {}
        /\ TotalMined < MaxMine

\* t's storeBlockData call in progress has logged that it could not read the
\* existing file
ReadErrorLogged(t) ==
    [at |-> idx[t], msg |-> "Error reading existing block data"] \in errlog[t]

\* C19: a storeBlockData that fails to parse or to read the peer's existing
\* file aborts and leaves the file as it is: the step that meets the parse
\* error returns without writing, and a call that has logged a read error
\* does not change the file.
C19_ReadErrorPreservesStore ==
    [][\A t \in Threads :
        /\ (pc[t] = "storeRead" /\ (pc'[t] # pc[t] \/ idx'[t] # idx[t])
                /\ dataFile[StoreTarget(t)].st = "corrupt") =>
            /\ dataFile' = dataFile
            /\ pc'[t] # "storeWrite"
        /\ (Leaves(t, "storeWrite") /\ ReadErrorLogged(t)) =>
            dataFile'[StoreTarget(t)] = dataFile[StoreTarget(t)]]_vars

\* no two positions of s hold blocks with the same id
UniqueIds(s) == \A i, j \in 1..Len(s) : s[i].id = s[j].id => i = j

\* C20: no file of a peer ever holds two blocks with the same id, and a
\* storeBlockData that writes leaves a parsable file whose last block is the
\* one it was called with, whatever the interleaving of the stores.
C20_UniqueIdsNewestLast ==
    /\ [](\A f \in FileIds : UniqueIds(dataFile[f].val))
    /\ [][\A t \in Threads :
            StoreWrites(t) =>
                LET new == dataFile'[StoreTarget(t)]
                IN /\ new.st = "ok"
                   /\ new.val # << >>
                   /\ new.val[Len(new.val)] = newBlock[t]]_vars

\* a broadcast has just stored its block again in the file that held it
\* already, beside another block, and the block is there once and last
C20_Witness ==
    \E t \in Threads :
        /\ pc[t] = "syncDone"
        /\ nodes[t] # << >>
        /\ nodes[t][idx[t]] = arg[t]
        /\ LET f == dataFile[arg[t]]
           IN /\ f.st = "ok"
              /\ Len(f.val) = 2
              /\ f.val[2] = newBlock[t]
              /\ Count(f.val, newBlock[t]) = 1

====
